---- MODULE Spec2Model ----
(***************************************************************************)
(* NOTIFY sending state machine of xfrd (src/xfrd-notify.c).               *)
(*                                                                         *)
(* One notify_zone_t per zone.  The C functions are operators over a       *)
(* context record [zone, open, out]: the notify_zone_t being worked on,    *)
(* the process's table of open descriptors, and the queries handed to      *)
(* xfrd_send_udp during the call.  The actions of the state machine are    *)
(* the entry points: xfrd_send_notify, close_notify_fds and the netio      *)
(* callback xfrd_handle_notify_send for a read or a timeout event.         *)
(*                                                                         *)
(* Time: the code only ever compares notify_timeout.tv_sec with the        *)
(* current time, so every stored time is kept as an offset from the        *)
(* current time (xfrd_time is the origin, 0) and the passing of time       *)
(* shifts the stored times (Tick).                                         *)
(***************************************************************************)
EXTENDS Integers, Sequences, FiniteSets, TLC

\* ---------------------------------------------------------------- constants
XFRD_NOTIFY_RETRY_TIMOUT == 15
XFRD_NOTIFY_MAX_NUM == 5

NETIO_EVENT_READ == "NETIO_EVENT_READ"
NETIO_EVENT_TIMEOUT == "NETIO_EVENT_TIMEOUT"

\* opcodes and rcodes of the DNS header (RFC 1035, RFC 1996)
OPCODE_QUERY == 0
OPCODE_NOTIFY == 4
RCODE_OK == 0
RCODE_SERVFAIL == 2
RCODE_IMPL == 4

\* ------------------------------------------------------------------- bounds
\* length of the longest configured notify acl list
MaxTargets == 2
\* seconds that pass in one Tick
TickStep == 5

\* --------------------------------------------------------------- parameters
\* zones: "master" has a notify acl list of MaxTargets entries, "single" one
\* entry, "plain" has no notify acl (options->notify == 0)
Zones == {"master", "plain"}
\* the zones of a server with several zones that send notifies
ManyZones == {"master", "single", "second"}

\* number of entries of options->notify for the zone
AclLen(apex) ==
    CASE apex = "master" -> MaxTargets
      [] apex = "single" -> 1
      [] apex = "second" -> 1
      [] OTHER -> 0

\* an acl entry is its position in the list; 0 is the null pointer
\* zone->options->notify
options_notify(apex) == IF AclLen(apex) > 0 THEN 1 ELSE 0

\* acl->next
acl_next(apex, acl) == IF acl < AclLen(apex) THEN acl + 1 ELSE 0

\* query identifiers are only compared for equality: the pending one and
\* another one show every case
IDs == {0, 1}
\* SOA serials: none (0) and one
Serials == {0, 5}
\* descriptors socket() can hand out
Fds == 3 .. (3 + Cardinality(ManyZones))

Packets ==
    [opcode : {OPCODE_QUERY, OPCODE_NOTIFY}, qr : {0, 1}, id : IDs,
     rcode : {RCODE_OK, RCODE_SERVFAIL, RCODE_IMPL}]

\* the current time; stored times are offsets from it
xfrd_time == 0

\* a stored time after TickStep seconds have passed; times further in the
\* past than one TickStep are all the same to the code
Shift(t) == IF t - TickStep < 0 - TickStep THEN 0 - TickStep ELSE t - TickStep

VARIABLES
    notify,     \* apex -> notify_zone_t
    open_fds,   \* descriptors the process holds open
    aborted,    \* an assert() of the code failed
    last,       \* the operation that led to this state (history)
    hist,       \* apex -> counters of the notify run (history)
    count_retries \* whether hist counts the retry sends of a run

vars == <<notify, open_fds, aborted, last, hist, count_retries>>

\* ------------------------------------------------------- the code, as operators
\* the context a C function works in
Ctx(zone, open) == [zone |-> zone, open |-> open, out |-> <<>>]

\* close(2)
close(c, fd) == [c EXCEPT !.open = @ \ {fd}]

\* socket(2) inside xfrd_send_udp: the lowest free descriptor, -1 when the
\* open fails (ok = FALSE) or no descriptor is left
xfrd_send_udp(open, ok) ==
    IF ok /\ Fds \ open # {}
    THEN CHOOSE f \in Fds \ open : \A g \in Fds \ open : f <= g
    ELSE -1

\* variant: the timeout of the handler is left set
notify_disable_keeps_timeout(c) ==
    LET c1 == IF c.zone.fd # -1 THEN close(c, c.zone.fd) ELSE c
    IN  [c1 EXCEPT !.zone.notify_current = 0,
                   !.zone.fd = -1]

\* variant: the target is cleared but the socket is neither closed nor
\* forgotten
notify_disable_keeps_socket(c) ==
    [c EXCEPT !.zone.notify_current = 0,
              !.zone.timeout_set = FALSE]

notify_disable(c) ==
    LET c1 == IF c.zone.fd # -1 THEN close(c, c.zone.fd) ELSE c
    IN  [c1 EXCEPT !.zone.notify_current = 0,
                   !.zone.fd = -1,
                   !.zone.timeout_set = FALSE]

\* the notify_zone_t init_notify_send leaves; soa is the serial of the
\* zone's SOA in the database, 0 without one.  The zeroed notify_timeout
\* is the epoch, long past.
init_notify_send(apex, soa) ==
    notify_disable(Ctx(
        [apex |-> apex,
         notify_current |-> 0,
         notify_retry |-> 0,
         notify_query_id |-> 0,
         current_soa |-> soa,
         fd |-> -1,
         timeout_set |-> FALSE,
         tv_sec |-> 0 - TickStep], {})).zone

\* variant: the response code is looked at before the identifier
xfrd_handle_notify_reply_rcode_first(zone, packet) ==
    IF packet.opcode # OPCODE_NOTIFY \/ packet.qr = 0
    THEN [ret |-> 0, msg |-> "received bad notify reply opcode/flags"]
    ELSE IF packet.rcode # RCODE_OK
    THEN IF packet.rcode = RCODE_IMPL
         THEN [ret |-> 1, msg |-> "received notify response error"]
         ELSE [ret |-> 0, msg |-> "received notify response error"]
    ELSE IF packet.id # zone.notify_query_id
    THEN [ret |-> 0, msg |-> "received notify-ack with bad ID"]
    ELSE [ret |-> 1, msg |-> "acknowledges notify"]

\* returns if the notify send is done for the notify_current acl, with the
\* message it logs
xfrd_handle_notify_reply(zone, packet) ==
    IF packet.opcode # OPCODE_NOTIFY \/ packet.qr = 0
    THEN [ret |-> 0, msg |-> "received bad notify reply opcode/flags"]
    ELSE IF packet.id # zone.notify_query_id
    THEN [ret |-> 0, msg |-> "received notify-ack with bad ID"]
    ELSE IF packet.rcode # RCODE_OK
    THEN IF packet.rcode = RCODE_IMPL
         THEN [ret |-> 1, msg |-> "received notify response error"]
         ELSE [ret |-> 0, msg |-> "received notify response error"]
    ELSE [ret |-> 1, msg |-> "acknowledges notify"]

\* variant: after the last target the list is started again
xfrd_notify_next_wraps(c) ==
    LET next == acl_next(c.zone.apex, c.zone.notify_current)
    IN  [c EXCEPT !.zone.notify_current =
                        IF next = 0 THEN options_notify(c.zone.apex) ELSE next,
                  !.zone.notify_retry = 0]

\* variant: the retry count of the target left behind is kept
xfrd_notify_next_keeps_retry(c) ==
    LET c1 == [c EXCEPT !.zone.notify_current = acl_next(c.zone.apex, @)]
    IN  IF c1.zone.notify_current = 0 THEN notify_disable(c1) ELSE c1

xfrd_notify_next(c) ==
    LET c1 == [c EXCEPT !.zone.notify_current = acl_next(c.zone.apex, @),
                        !.zone.notify_retry = 0]
    IN  IF c1.zone.notify_current = 0 THEN notify_disable(c1) ELSE c1

\* the NOTIFY query xfrd_notify_send_udp builds; id is the identifier
\* xfrd_setup_packet put in the packet
notify_packet(zone, id) ==
    [id |-> id, opcode |-> OPCODE_NOTIFY, aa |-> 1,
     ancount |-> IF zone.current_soa # 0 THEN 1 ELSE 0,
     soa |-> IF zone.current_soa # 0 THEN <<zone.current_soa>> ELSE <<>>]

\* variant: the identifier of the query is not recorded
xfrd_notify_send_udp_forgets_id(c, id, ok) ==
    LET c1 == IF c.zone.fd # -1 THEN close(c, c.zone.fd) ELSE c
        c2 == [c1 EXCEPT !.zone.fd = -1,
                         !.zone.tv_sec = xfrd_time + XFRD_NOTIFY_RETRY_TIMOUT]
        fd == xfrd_send_udp(c2.open, ok)
    IN  [c2 EXCEPT !.zone.fd = fd,
                   !.open = IF fd # -1 THEN @ \cup {fd} ELSE @,
                   !.out = Append(@, [to |-> c2.zone.notify_current,
                                      packet |-> notify_packet(c2.zone, id),
                                      fd |-> fd,
                                      open |-> c2.open \cup ({fd} \ {-1})])]

\* variant: the timeout is set only when the socket could be opened
xfrd_notify_send_udp_no_wake_on_failure(c, id, ok) ==
    LET c1 == IF c.zone.fd # -1 THEN close(c, c.zone.fd) ELSE c
        c2 == [c1 EXCEPT !.zone.fd = -1,
                         !.zone.notify_query_id = id]
        fd == xfrd_send_udp(c2.open, ok)
    IN  [c2 EXCEPT !.zone.fd = fd,
                   !.zone.tv_sec = IF fd # -1
                                   THEN xfrd_time + XFRD_NOTIFY_RETRY_TIMOUT
                                   ELSE @,
                   !.open = IF fd # -1 THEN @ \cup {fd} ELSE @,
                   !.out = Append(@, [to |-> c2.zone.notify_current,
                                      packet |-> notify_packet(c2.zone, id),
                                      fd |-> fd,
                                      open |-> c2.open \cup ({fd} \ {-1})])]

\* variant: the socket of the query before is left open
xfrd_notify_send_udp_leaks(c, id, ok) ==
    LET c2 == [c EXCEPT !.zone.fd = -1,
                        !.zone.tv_sec = xfrd_time + XFRD_NOTIFY_RETRY_TIMOUT,
                        !.zone.notify_query_id = id]
        fd == xfrd_send_udp(c2.open, ok)
    IN  [c2 EXCEPT !.zone.fd = fd,
                   !.open = IF fd # -1 THEN @ \cup {fd} ELSE @,
                   !.out = Append(@, [to |-> c2.zone.notify_current,
                                      packet |-> notify_packet(c2.zone, id),
                                      fd |-> fd,
                                      open |-> c2.open \cup ({fd} \ {-1})])]

\* id: the identifier xfrd_setup_packet assigns; ok: the socket can be opened;
\* an entry of out is the query handed to xfrd_send_udp: its target, the
\* packet, the descriptor returned and the descriptors open at that point
xfrd_notify_send_udp(c, id, ok) ==
    LET c1 == IF c.zone.fd # -1 THEN close(c, c.zone.fd) ELSE c
        c2 == [c1 EXCEPT !.zone.fd = -1,
                         !.zone.tv_sec = xfrd_time + XFRD_NOTIFY_RETRY_TIMOUT,
                         !.zone.notify_query_id = id]
        fd == xfrd_send_udp(c2.open, ok)
    IN  [c2 EXCEPT !.zone.fd = fd,
                   !.open = IF fd # -1 THEN @ \cup {fd} ELSE @,
                   !.out = Append(@, [to |-> c2.zone.notify_current,
                                      packet |-> notify_packet(c2.zone, id),
                                      fd |-> fd,
                                      open |-> c2.open \cup ({fd} \ {-1})])]

\* variant: the target is given up one timeout early
max_send_count_reached_early(zone) ==
    zone.notify_retry >= XFRD_NOTIFY_MAX_NUM

\* the test of xfrd_handle_notify_send after a timeout was counted
max_send_count_reached(zone) == zone.notify_retry > XFRD_NOTIFY_MAX_NUM

\* variant: nothing is sent after a read that failed
xfrd_handle_notify_send_silent_on_failed_read(c, event_types, got, packet, id, ok) ==
    LET c1 ==
            IF NETIO_EVENT_READ \in event_types
            THEN IF got /\ xfrd_handle_notify_reply(c.zone, packet).ret # 0
                 THEN xfrd_notify_next(c)
                 ELSE c
            ELSE IF NETIO_EVENT_TIMEOUT \in event_types
            THEN LET c0 == [c EXCEPT !.zone.notify_retry = @ + 1]
                 IN  IF max_send_count_reached(c0.zone)
                     THEN xfrd_notify_next(c0)
                     ELSE c0
            ELSE c
    IN  IF c1.zone.notify_current # 0
           /\ ~(NETIO_EVENT_READ \in event_types /\ ~got)
        THEN xfrd_notify_send_udp(c1, id, ok)
        ELSE c1

\* the netio callback, entered with notify_current set.  got: whether
\* xfrd_udp_read_packet read a datagram, packet: that datagram
xfrd_handle_notify_send(c, event_types, got, packet, id, ok) ==
    LET c1 ==
            IF NETIO_EVENT_READ \in event_types
            THEN IF got /\ xfrd_handle_notify_reply(c.zone, packet).ret # 0
                 THEN xfrd_notify_next(c)
                 ELSE c
            ELSE IF NETIO_EVENT_TIMEOUT \in event_types
            THEN LET c0 == [c EXCEPT !.zone.notify_retry = @ + 1]
                 IN  IF max_send_count_reached(c0.zone)
                     THEN xfrd_notify_next(c0)
                     ELSE c0
            ELSE c
    IN  IF c1.zone.notify_current # 0
        THEN xfrd_notify_send_udp(c1, id, ok)
        ELSE c1

\* variant: the retry count is left as it was
xfrd_send_notify_keeps_retry(c, new_soa) ==
    IF options_notify(c.zone.apex) = 0
    THEN c
    ELSE [c EXCEPT !.zone.current_soa = new_soa,
                   !.zone.notify_current = options_notify(c.zone.apex),
                   !.zone.timeout_set = TRUE,
                   !.zone.tv_sec = xfrd_time]

\* variant: arming counts as an attempt on the first target
xfrd_send_notify_counts_attempt(c, new_soa) ==
    IF options_notify(c.zone.apex) = 0
    THEN c
    ELSE [c EXCEPT !.zone.current_soa = new_soa,
                   !.zone.notify_retry =
                       IF c.zone.notify_current = options_notify(c.zone.apex)
                          /\ @ < XFRD_NOTIFY_MAX_NUM
                       THEN @ + 1 ELSE 0,
                   !.zone.notify_current = options_notify(c.zone.apex),
                   !.zone.timeout_set = TRUE,
                   !.zone.tv_sec = xfrd_time]

\* variant: the notify acl list is not looked at
xfrd_send_notify_without_acl_check(c, new_soa) ==
    [c EXCEPT !.zone.current_soa = new_soa,
              !.zone.notify_retry = 0,
              !.zone.notify_current = options_notify(c.zone.apex),
              !.zone.timeout_set = TRUE,
              !.zone.tv_sec = xfrd_time]

\* variant: the SOA passed in is not copied
xfrd_send_notify_keeps_soa(c, new_soa) ==
    IF options_notify(c.zone.apex) = 0
    THEN c
    ELSE [c EXCEPT !.zone.notify_retry = 0,
                   !.zone.notify_current = options_notify(c.zone.apex),
                   !.zone.timeout_set = TRUE,
                   !.zone.tv_sec = xfrd_time]

\* new_soa: the serial of the SOA passed in
xfrd_send_notify(c, new_soa) ==
    IF options_notify(c.zone.apex) = 0
    THEN c
    ELSE [c EXCEPT !.zone.current_soa = new_soa,
                   !.zone.notify_retry = 0,
                   !.zone.notify_current = options_notify(c.zone.apex),
                   !.zone.timeout_set = TRUE,
                   !.zone.tv_sec = xfrd_time]

\* variant: the zone is disabled, not only its socket closed
close_notify_fd_disables(c) ==
    IF c.zone.fd # -1 THEN notify_disable(c) ELSE c

\* the body of the loop of close_notify_fds, for one zone
close_notify_fd(c) ==
    IF c.zone.fd # -1
    THEN [close(c, c.zone.fd) EXCEPT !.zone.fd = -1]
    ELSE c

RECURSIVE close_notify_fds(_, _, _)
\* RBTREE_FOR over the zones left to visit; returns [notify, open]
close_notify_fds(tree, open, todo) ==
    IF todo = {}
    THEN [notify |-> tree, open |-> open]
    ELSE LET apex == CHOOSE a \in todo : TRUE
             c == close_notify_fd(Ctx(tree[apex], open))
         IN  close_notify_fds([tree EXCEPT ![apex] = c.zone], c.open,
                              todo \ {apex})

\* ------------------------------------------------------------ the event loop
\* netio delivers a read event for a handler whose descriptor is readable
ReadEnabled(zone) == zone.fd # -1
\* netio delivers a timeout event for a handler whose timeout is set and due
TimerEnabled(zone) == zone.timeout_set /\ zone.tv_sec <= xfrd_time

\* ------------------------------------------------------------------ history
\* how the spec names what xfrd_handle_notify_reply answered
Verdict(r) ==
    IF r.ret = 0 THEN "Reject"
    ELSE IF r.msg = "acknowledges notify" THEN "Acknowledged"
    ELSE "GiveUp"

\* retry sends are counted up to one more than the claimed limit
RetryCap(apex) == XFRD_NOTIFY_MAX_NUM * AclLen(apex) + 1

\* the fields of a zone an operation is judged against afterwards
Before(zone) ==
    [notify_current |-> zone.notify_current,
     notify_retry |-> zone.notify_retry,
     notify_query_id |-> zone.notify_query_id,
     fd |-> zone.fd]

\* op: the operation; apex: its zone; before: the zone when it began;
\* soa, again: the SOA an arm passed and whether it repeats the arm before
\* it; got, packet, reply: what a read event read and what
\* xfrd_handle_notify_reply answered; nth: which timer expiry on this
\* target a timeout event was; out: the queries handed to xfrd_send_udp;
\* closed: the descriptors that were open when close_notify_fds began;
\* asked: whether the current target had been sent a query since it became
\* the current one
Quiet ==
    [op |-> "init", apex |-> "", soa |-> 0, again |-> FALSE, got |-> FALSE,
     packet |-> <<>>, reply |-> <<>>, nth |-> 0, out |-> <<>>, closed |-> {},
     asked |-> FALSE,
     before |-> [notify_current |-> 0, notify_retry |-> 0,
                 notify_query_id |-> 0, fd |-> -1]]

\* what `last` keeps of an operation: everything, or only which operation
\* it was while the retry sends of a run are counted
Recorded(l) ==
    IF count_retries THEN [Quiet EXCEPT !.op = l.op, !.apex = l.apex] ELSE l

\* expiries: timer expiries on the current target; sent_cur: a query was
\* sent to the current target since it became the current one; retries: the
\* retry sends of the run; armed_soa: the SOA the latest xfrd_send_notify
\* passed.  While the sends of a run are counted -- clean: the run has seen
\* timeout events only and a socket was opened for each of its queries; of
\* a clean run, sent_n: the queries sent to the current target, gone and
\* gone_n: the target left behind latest and the queries that were sent to it
NoHist ==
    [expiries |-> 0, sent_cur |-> FALSE, retries |-> 0, armed_soa |-> 0,
     clean |-> TRUE, sent_n |-> 0, gone |-> 0, gone_n |-> 0]

\* the counters of a zone after a dispatcher call that went from zone `old`
\* to zone `new` and handed `out` to xfrd_send_udp
HistAfter(h, apex, old, new, out, timeout, counting) ==
    LET advanced == new.notify_current # old.notify_current
        sent == Len(out) > 0
        clean == IF counting
                 THEN /\ h.clean
                      /\ timeout
                      /\ \A i \in 1 .. Len(out) : out[i].fd # -1
                 ELSE h.clean
        tracked == counting /\ clean
    IN  [expiries |-> IF advanced THEN 0
                      ELSE IF timeout THEN h.expiries + 1 ELSE h.expiries,
         sent_cur |-> IF advanced THEN sent ELSE h.sent_cur \/ sent,
         retries |-> IF counting /\ ~advanced /\ h.sent_cur /\ sent
                        /\ h.retries < RetryCap(apex)
                     THEN h.retries + 1 ELSE h.retries,
         armed_soa |-> h.armed_soa,
         clean |-> clean,
         sent_n |-> IF ~tracked THEN 0
                    ELSE IF advanced THEN Len(out) ELSE h.sent_n + Len(out),
         gone |-> IF ~tracked THEN 0
                  ELSE IF advanced THEN old.notify_current ELSE h.gone,
         gone_n |-> IF ~tracked THEN 0
                    ELSE IF advanced THEN h.sent_n ELSE h.gone_n]

\* the session has no current target
Idle(zone) == zone.notify_current = 0

\* ------------------------------------------------------------------ actions
\* init_notify_send was called for every zone of `tree`
StartWith(tree) ==
    /\ notify \in [tree -> UNION {{init_notify_send(a, s) : s \in Serials}
                                   : a \in tree}]
    /\ \A a \in tree : notify[a].apex = a
    /\ open_fds = {}
    /\ aborted = FALSE
    /\ last = Quiet
    /\ hist = [a \in tree |-> NoHist]

Start == StartWith(Zones)

Init == Start /\ count_retries = FALSE

\* xfrd_send_notify(tree, apex, new_soa)
Arm(apex, new_soa) ==
    /\ ~aborted
    /\ LET c == xfrd_send_notify(Ctx(notify[apex], open_fds), new_soa)
       IN  /\ notify' = [notify EXCEPT ![apex] = c.zone]
           /\ open_fds' = c.open
    /\ last' = Recorded(
                [Quiet EXCEPT !.op = "arm", !.apex = apex, !.soa = new_soa,
                              !.before = Before(notify[apex]),
                              !.again = /\ last.op = "arm"
                                        /\ last.apex = apex
                                        /\ last.soa = new_soa])
    /\ hist' = IF options_notify(apex) # 0
               THEN [hist EXCEPT ![apex] =
                                    [NoHist EXCEPT !.armed_soa = new_soa]]
               ELSE hist
    /\ UNCHANGED <<aborted, count_retries>>

\* netio calls xfrd_handle_notify_send for the zone's handler
Dispatch(apex, event, got, packet, id, ok) ==
    /\ ~aborted
    /\ IF \/ notify[apex].notify_current = 0
          \/ event = NETIO_EVENT_READ /\ notify[apex].fd = -1
       THEN \* assert(zone->notify_current), assert(handler->fd != -1)
            /\ aborted' = TRUE
            /\ UNCHANGED <<notify, open_fds, last, hist, count_retries>>
       ELSE LET c == xfrd_handle_notify_send(Ctx(notify[apex], open_fds),
                                             {event}, got, packet, id, ok)
            IN  /\ notify' = [notify EXCEPT ![apex] = c.zone]
                /\ open_fds' = c.open
                /\ last' = Recorded([Quiet EXCEPT
                       !.op = event, !.apex = apex, !.got = got,
                       !.before = Before(notify[apex]),
                       !.asked = hist[apex].sent_cur,
                       !.nth = IF event = NETIO_EVENT_TIMEOUT
                               THEN hist[apex].expiries + 1 ELSE 0,
                       !.packet = IF got THEN <<packet>> ELSE <<>>,
                       !.reply = IF got
                                 THEN <<xfrd_handle_notify_reply(notify[apex],
                                                                 packet)>>
                                 ELSE <<>>,
                       !.out = c.out])
                /\ hist' = [hist EXCEPT ![apex] =
                       HistAfter(@, apex, notify[apex], c.zone, c.out,
                                 event = NETIO_EVENT_TIMEOUT, count_retries)]
                /\ UNCHANGED <<aborted, count_retries>>

\* the socket of the zone is readable: a datagram has arrived (from the
\* secondary or from anybody else), or reading it fails
ReadEvent(apex) ==
    /\ ReadEnabled(notify[apex])
    /\ \E got \in BOOLEAN, id \in IDs, ok \in BOOLEAN :
       \E packet \in IF got THEN Packets ELSE {CHOOSE p \in Packets : TRUE} :
            Dispatch(apex, NETIO_EVENT_READ, got, packet, id, ok)

\* the timeout of the zone's handler is due
TimeoutEvent(apex) ==
    /\ TimerEnabled(notify[apex])
    /\ \E id \in IDs, ok \in BOOLEAN :
            Dispatch(apex, NETIO_EVENT_TIMEOUT, FALSE,
                     CHOOSE p \in Packets : TRUE, id, ok)

\* close_notify_fds(tree)
Shutdown ==
    /\ ~aborted
    /\ LET r == close_notify_fds(notify, open_fds, DOMAIN notify)
       IN  /\ notify' = r.notify
           /\ open_fds' = r.open
    /\ last' = [Quiet EXCEPT !.op = "shutdown", !.closed = open_fds]
    /\ UNCHANGED <<aborted, hist, count_retries>>

\* TickStep seconds pass
Tick ==
    /\ ~aborted
    /\ notify' = [a \in DOMAIN notify |->
                      [notify[a] EXCEPT !.tv_sec = Shift(@)]]
    /\ last' = [Quiet EXCEPT !.op = "tick"]
    /\ UNCHANGED <<open_fds, aborted, hist, count_retries>>

ArmAny == \E apex \in DOMAIN notify, new_soa \in Serials : Arm(apex, new_soa)
ReadAny == \E apex \in DOMAIN notify : ReadEvent(apex)
TimeoutAny == \E apex \in DOMAIN notify : TimeoutEvent(apex)

Next == ArmAny \/ ReadAny \/ TimeoutAny \/ Shutdown \/ Tick

Spec == Init /\ [][Next]_vars

\* netio delivers a timeout that is due, and time passes
FairSpec == Spec /\ WF_vars(Tick) /\ WF_vars(TimeoutAny)

\* notify runs one after the other, with their retry sends counted: a zone
\* is armed only while it is idle
RunInit == Start /\ count_retries = TRUE
ArmIdle ==
    \E apex \in DOMAIN notify, new_soa \in Serials :
        Idle(notify[apex]) /\ Arm(apex, new_soa)
RunNext == ArmIdle \/ ReadAny \/ TimeoutAny \/ Shutdown \/ Tick
RunSpec == RunInit /\ [][RunNext]_vars

\* the reply that acknowledges the pending query of the zone
AckPacket(zone) ==
    [opcode |-> OPCODE_NOTIFY, qr |-> 1, id |-> zone.notify_query_id,
     rcode |-> RCODE_OK]

\* the secondary acknowledges the pending query
AckAny ==
    \E apex \in DOMAIN notify :
        /\ ReadEnabled(notify[apex])
        /\ \E id \in IDs, ok \in BOOLEAN :
                Dispatch(apex, NETIO_EVENT_READ, TRUE, AckPacket(notify[apex]),
                         id, ok)

\* several zones that send notifies, none with a SOA when loaded, within
\* one retry interval: they are armed, send their first query to a target,
\* are acknowledged and shut down, and no timeout but the one set by
\* xfrd_send_notify comes due.  `last` keeps only which operation it was.
ManyInit ==
    /\ StartWith(ManyZones)
    /\ \A a \in ManyZones : notify[a].current_soa = 0
    /\ count_retries = TRUE
ManyNext == ArmAny \/ TimeoutAny \/ AckAny \/ Shutdown
ManySpec == ManyInit /\ [][ManyNext]_vars

\* ------------------------------------------------------------------- claims
ReadDone == last.op = NETIO_EVENT_READ /\ last.got
LastVerdict == Verdict(last.reply[1])

\* C1, as claimed: after every operation a session has no current target if
\* and only if it has no open socket.
C1_NoTargetIffNoSocket ==
    \A a \in Zones : (notify[a].notify_current = 0) <=> (notify[a].fd = -1)

\* C1, amended: after every operation a session with no current target has
\* no open socket (a session with a current target may have none).
C1_NoTargetNoSocket ==
    \A a \in Zones : notify[a].notify_current = 0 => notify[a].fd = -1

\* a reply on the open socket of the last target made the session idle
C1_Witness ==
    /\ ReadDone
    /\ last.before.fd # -1
    /\ notify[last.apex].notify_current = 0
    /\ notify[last.apex].fd = -1

\* C2: after every operation notify_retry is in 0..XFRD_NOTIFY_MAX_NUM and
\* counts the timer expiries since the target became current or the zone was
\* armed, and a timer expiry leaves the target exactly when it is expiry
\* number XFRD_NOTIFY_MAX_NUM + 1 on it.
C2_RetryBounded ==
    /\ \A a \in Zones :
        /\ notify[a].notify_retry \in 0 .. XFRD_NOTIFY_MAX_NUM
        /\ notify[a].notify_current # 0
             => notify[a].notify_retry = hist[a].expiries
    /\ last.op = NETIO_EVENT_TIMEOUT =>
        ((notify[last.apex].notify_current # last.before.notify_current)
            <=> (last.nth = XFRD_NOTIFY_MAX_NUM + 1))

\* the expiry number XFRD_NOTIFY_MAX_NUM + 1 moved the zone to its second
\* target
C2_Witness ==
    /\ last.op = NETIO_EVENT_TIMEOUT
    /\ last.nth = XFRD_NOTIFY_MAX_NUM + 1
    /\ last.before.notify_current = 1
    /\ notify[last.apex].notify_current = 2
    /\ notify[last.apex].notify_retry = 0

\* C3: xfrd_send_notify for a zone with a notify acl leaves notify_retry 0,
\* the first acl current, the SOA passed in as current_soa and the timeout
\* set and due now, whatever the zone was doing.
C3_ArmResets ==
    (last.op = "arm" /\ options_notify(last.apex) # 0) =>
        LET zone == notify[last.apex]
        IN  /\ zone.notify_retry = 0
            /\ zone.notify_current = options_notify(last.apex)
            /\ zone.current_soa = last.soa
            /\ zone.timeout_set
            /\ zone.tv_sec = xfrd_time

\* armed while waiting on the second target, after timeouts on it, with its
\* socket open
C3_Witness ==
    /\ last.op = "arm"
    /\ last.before.notify_current = 2
    /\ last.before.notify_retry > 0
    /\ last.before.fd # -1
    /\ notify[last.apex].fd # -1
    /\ notify[last.apex].notify_current = 1

\* C4: a reply that is acknowledged or answers NOTIMPL moves the zone to the
\* next acl with notify_retry 0 and one query is sent to it; from the last
\* acl the zone becomes idle: socket closed, no target, timeout cleared, and
\* nothing is sent.
C4_AckAdvances ==
    (ReadDone /\ LastVerdict \in {"Acknowledged", "GiveUp"}) =>
        LET zone == notify[last.apex]
            next == acl_next(last.apex, last.before.notify_current)
        IN  /\ zone.notify_current = next
            /\ zone.notify_retry = 0
            /\ IF next # 0
               THEN /\ Len(last.out) = 1
                    /\ last.out[1].to = next
                    /\ last.out[1].packet.id = zone.notify_query_id
                    /\ zone.fd = last.out[1].fd
                    /\ zone.timeout_set
                    /\ zone.tv_sec = xfrd_time + XFRD_NOTIFY_RETRY_TIMOUT
               ELSE /\ last.out = <<>>
                    /\ zone.fd = -1
                    /\ last.before.fd \notin open_fds
                    /\ ~zone.timeout_set

\* NOTIMPL from the first target after a timeout: the second target is sent
\* a query
C4_Witness ==
    /\ ReadDone
    /\ LastVerdict = "GiveUp"
    /\ last.before.notify_current = 1
    /\ last.before.notify_retry > 0
    /\ notify[last.apex].notify_current = 2
    /\ Len(last.out) = 1

\* C5: a rejected reply leaves the current target and notify_retry as they
\* were, and in the same call one query with a newly assigned identifier,
\* recorded as the pending one, is sent to the same target.
C5_RejectResends ==
    (ReadDone /\ LastVerdict = "Reject") =>
        LET zone == notify[last.apex]
        IN  /\ zone.notify_current = last.before.notify_current
            /\ zone.notify_retry = last.before.notify_retry
            /\ Len(last.out) = 1
            /\ last.out[1].to = last.before.notify_current
            /\ last.out[1].packet.id = zone.notify_query_id
            /\ zone.fd = last.out[1].fd
            /\ zone.tv_sec = xfrd_time + XFRD_NOTIFY_RETRY_TIMOUT

\* a reply with the wrong identifier was rejected and the query sent again
\* under another identifier than the pending one
C5_Witness ==
    /\ ReadDone
    /\ LastVerdict = "Reject"
    /\ last.packet[1].opcode = OPCODE_NOTIFY
    /\ last.packet[1].qr = 1
    /\ last.packet[1].id # last.before.notify_query_id
    /\ last.before.notify_retry > 0
    /\ notify[last.apex].notify_query_id # last.before.notify_query_id
    /\ notify[last.apex].fd # -1

\* the validator as the specification words it
Validate(reply, expected_query_id) ==
    CASE reply.opcode # OPCODE_NOTIFY \/ reply.qr # 1 -> "Reject"
      [] OTHER ->
        CASE reply.id # expected_query_id -> "Reject"
          [] OTHER ->
            CASE reply.rcode = RCODE_IMPL -> "GiveUp"
              [] reply.rcode # RCODE_OK -> "Reject"
              [] OTHER -> "Acknowledged"

\* C6: for every reply read, xfrd_handle_notify_reply answers what the
\* reference validator answers for that reply and the pending identifier; a
\* reply with another identifier is rejected whatever its response code.
C6_ValidatorMatches ==
    ReadDone =>
        /\ LastVerdict = Validate(last.packet[1], last.before.notify_query_id)
        /\ last.packet[1].id # last.before.notify_query_id
             => LastVerdict = "Reject"

\* a NOTIMPL notify response with the wrong identifier was rejected
C6_Witness ==
    /\ ReadDone
    /\ last.packet[1].opcode = OPCODE_NOTIFY
    /\ last.packet[1].qr = 1
    /\ last.packet[1].rcode = RCODE_IMPL
    /\ last.packet[1].id # last.before.notify_query_id
    /\ LastVerdict = "Reject"

\* C7, as claimed: whatever datagrams arrive on its socket, a session with a
\* current target eventually has none, unless it is armed again, when due
\* timeouts are delivered and time passes.
C7_EventuallyIdle ==
    \A a \in Zones :
        (~Idle(notify[a])) ~>
            (Idle(notify[a]) \/ (last.op = "arm" /\ last.apex = a))

\* C8, as claimed: from an arm to the next idle state the retry sends, every
\* send to a target after the first one to it, number at most
\* XFRD_NOTIFY_MAX_NUM times the length of the acl list.
C8_RetriesBounded ==
    \A a \in Zones : hist[a].retries <= XFRD_NOTIFY_MAX_NUM * AclLen(a)

\* C9: xfrd_send_notify called again with the same SOA, nothing having
\* happened in between, changes nothing of any session or socket.
C9_ArmIdempotent ==
    [][(last'.op = "arm" /\ last'.again)
         => (notify' = notify /\ open_fds' = open_fds)]_vars

\* armed twice in a row with the same SOA while a socket of the run before
\* was still open
C9_Witness ==
    /\ last.op = "arm"
    /\ last.again
    /\ options_notify(last.apex) # 0
    /\ notify[last.apex].fd # -1
    /\ notify[last.apex].notify_current = 1
    /\ notify[last.apex].tv_sec = xfrd_time

\* C10: a zone without notify acl list is never changed, by xfrd_send_notify
\* or anything else: it stays idle, without socket and timeout, and no
\* event is delivered for it.
C10_NoAclNoOp ==
    /\ [](\A a \in Zones : options_notify(a) = 0 =>
            /\ Idle(notify[a])
            /\ ~ReadEnabled(notify[a])
            /\ ~TimerEnabled(notify[a]))
    /\ [][\A a \in Zones : options_notify(a) = 0 => notify'[a] = notify[a]]_vars

\* xfrd_send_notify was called for a zone without notify acl list, with
\* another SOA than the zone has
C10_Witness ==
    /\ last.op = "arm"
    /\ options_notify(last.apex) = 0
    /\ last.soa # notify[last.apex].current_soa
    /\ notify[last.apex] = init_notify_send(last.apex,
                                            notify[last.apex].current_soa)

\* C11: close_notify_fds leaves every session without open socket, closes
\* the sockets the sessions held, and changes nothing else of any session
\* nor the set of sessions.
C11_ShutdownClosesOnly ==
    [][last'.op = "shutdown" =>
        /\ DOMAIN notify' = DOMAIN notify
        /\ \A a \in DOMAIN notify :
            /\ notify'[a] = [notify[a] EXCEPT !.fd = -1]
            /\ notify[a].fd \notin open_fds'
        /\ open_fds' = open_fds \ {notify[a].fd : a \in DOMAIN notify}]_vars

\* close_notify_fds ran while three sessions had a target and an open
\* socket, one of them on its second target
C11_Witness ==
    /\ last.op = "shutdown"
    /\ Cardinality(last.closed) = 3
    /\ open_fds = {}
    /\ \A a \in ManyZones : ~Idle(notify[a]) /\ notify[a].fd = -1
                            /\ notify[a].timeout_set
    /\ notify["master"].notify_current = 2

\* the descriptors the sessions other than `apex` hold
HeldByOthers(apex) == {notify[b].fd : b \in DOMAIN notify \ {apex}} \ {-1}
Dispatched == last.op \in {NETIO_EVENT_READ, NETIO_EVENT_TIMEOUT}

\* C12: the open descriptors are exactly the descriptors the sessions record,
\* one at most per session and none shared, after every operation and at the
\* point inside xfrd_notify_send_udp where the new socket was opened.
C12_OneSocketEach ==
    /\ open_fds = {notify[a].fd : a \in DOMAIN notify} \ {-1}
    /\ \A a, b \in DOMAIN notify :
            a # b /\ notify[a].fd = notify[b].fd => notify[a].fd = -1
    /\ \A i \in 1 .. Len(last.out) :
            last.out[i].open = HeldByOthers(last.apex) \cup ({last.out[i].fd} \ {-1})

\* a query was sent while the socket of the query before was still open:
\* that socket was closed and the new one is the only one
C12_Witness ==
    /\ Dispatched
    /\ last.before.fd # -1
    /\ Len(last.out) = 1
    /\ last.out[1].fd # -1
    /\ open_fds = {notify[last.apex].fd}

\* C13: a call of xfrd_handle_notify_send that ends with a current target
\* has sent one query to that target; the identifier of that query is the
\* pending one and the timeout is XFRD_NOTIFY_RETRY_TIMOUT from now.
C13_ActiveHasSent ==
    Dispatched /\ ~Idle(notify[last.apex]) =>
        LET zone == notify[last.apex]
        IN  /\ Len(last.out) = 1
            /\ last.out[1].to = zone.notify_current
            /\ last.out[1].packet.id = zone.notify_query_id
            /\ zone.timeout_set
            /\ zone.tv_sec = xfrd_time + XFRD_NOTIFY_RETRY_TIMOUT

\* a read event whose read failed ended with a query sent under a new
\* identifier
C13_Witness ==
    /\ last.op = NETIO_EVENT_READ
    /\ ~last.got
    /\ ~Idle(notify[last.apex])
    /\ Len(last.out) = 1
    /\ last.out[1].packet.id = notify[last.apex].notify_query_id
    /\ last.out[1].packet.id # last.before.notify_query_id

\* C14: every query handed to xfrd_send_udp has ANCOUNT 1 and the SOA the
\* latest xfrd_send_notify passed when the serial of that SOA is not 0, and
\* ANCOUNT 0 and no SOA when it is 0.
C14_QueryCarriesArmedSoa ==
    \A i \in 1 .. Len(last.out) :
        LET soa == hist[last.apex].armed_soa
            packet == last.out[i].packet
        IN  IF soa # 0
            THEN packet.ancount = 1 /\ packet.soa = <<soa>>
            ELSE packet.ancount = 0 /\ packet.soa = <<>>

\* a read event on a socket that is older than the latest xfrd_send_notify
\* sent a query with the SOA of that xfrd_send_notify
C14_Witness ==
    /\ last.op = NETIO_EVENT_READ
    /\ ~last.asked
    /\ Len(last.out) = 1
    /\ hist[last.apex].armed_soa # 0
    /\ last.out[1].packet.ancount = 1
    /\ last.out[1].packet.soa = <<hist[last.apex].armed_soa>>

\* xfrd_send_udp returned -1 for the query of the latest call of
\* xfrd_handle_notify_send
OpenFailed == Dispatched /\ Len(last.out) = 1 /\ last.out[1].fd = -1

\* C15: when xfrd_send_udp returns -1 the session keeps the target the query
\* was for, has no socket and its timeout is XFRD_NOTIFY_RETRY_TIMOUT from
\* now; and a session with a target gets idle unless a socket is opened for
\* it or it is armed again.
C15_OpenFailureNotStuck ==
    /\ [](OpenFailed =>
            LET zone == notify[last.apex]
            IN  /\ zone.notify_current = last.out[1].to
                /\ zone.notify_current # 0
                /\ zone.fd = -1
                /\ zone.timeout_set
                /\ zone.tv_sec = xfrd_time + XFRD_NOTIFY_RETRY_TIMOUT)
    /\ \A a \in {z \in Zones : options_notify(z) # 0} :
            (~Idle(notify[a])) ~>
                \/ Idle(notify[a])
                \/ notify[a].fd # -1
                \/ last.op = "arm" /\ last.apex = a

\* the last target was given up by the timeout that followed a query for
\* which no socket could be opened
C15_Witness ==
    /\ last.op = NETIO_EVENT_TIMEOUT
    /\ last.before.fd = -1
    /\ last.before.notify_retry = XFRD_NOTIFY_MAX_NUM
    /\ last.before.notify_current = AclLen(last.apex)
    /\ Idle(notify[last.apex])

\* C16: but for xfrd_send_notify, which starts at the head of the list, the
\* current target of a session stays or moves to the entry that follows it
\* in the list (to none after the last), and the queries of a step go to the
\* target that is the current one after the step: a target left behind is
\* not the current one again and gets no query.
C16_ListOrder ==
    [][\A a \in DOMAIN notify :
        LET old == notify[a].notify_current
            new == notify'[a].notify_current
        IN  IF last'.op = "arm" /\ last'.apex = a
            THEN new = options_notify(a)
            ELSE /\ new = old \/ (old # 0 /\ new = acl_next(a, old))
                 /\ last'.apex = a =>
                        \A i \in 1 .. Len(last'.out) :
                            /\ old # 0
                            /\ last'.out[i].to = new
                            /\ last'.out[i].to >= old]_vars

\* the timeout that used up the retries of the first target moved on to the
\* second and sent the query to the second
C16_Witness ==
    /\ last.op = NETIO_EVENT_TIMEOUT
    /\ last.before.notify_current = 1
    /\ last.before.notify_retry = XFRD_NOTIFY_MAX_NUM
    /\ notify[last.apex].notify_current = 2
    /\ Len(last.out) = 1
    /\ last.out[1].to = 2

\* C17, as claimed: in a run without any reply and with a socket opened for
\* every query, a target that is given up has been sent 5 queries, whichever
\* place it has in the list.
C17_FiveQueriesEveryTarget ==
    \A a \in DOMAIN notify :
        hist[a].clean /\ hist[a].gone # 0 => hist[a].gone_n = XFRD_NOTIFY_MAX_NUM

\* C18, as claimed: a read event whose read fails leaves the target and
\* notify_retry as they were and sends no query.
C18_FailedReadSendsNothing ==
    last.op = NETIO_EVENT_READ /\ ~last.got =>
        /\ notify[last.apex].notify_current = last.before.notify_current
        /\ notify[last.apex].notify_retry = last.before.notify_retry
        /\ last.out = <<>>

\* C19, as claimed: a reply moves the session past its current target only
\* when that target has been sent a query since it became the current one,
\* that is since the latest xfrd_send_notify for the first target.
C19_AdvanceOnlyOnAnswerToTarget ==
    /\ ReadDone
    /\ notify[last.apex].notify_current # last.before.notify_current
    => last.asked

\* C20: a session without current target has no socket and no timeout set,
\* so neither a read nor a timeout event is delivered for it, and no assert
\* of xfrd_handle_notify_send has failed.
C20_IdleGetsNoEvent ==
    /\ ~aborted
    /\ \A a \in DOMAIN notify :
            Idle(notify[a]) =>
                /\ notify[a].fd = -1
                /\ ~notify[a].timeout_set
                /\ ~ReadEnabled(notify[a])
                /\ ~TimerEnabled(notify[a])

\* a timeout gave up the last target while its socket was open: the session
\* is idle, the socket closed and the timeout, still in the past, cleared
C20_Witness ==
    /\ last.op = NETIO_EVENT_TIMEOUT
    /\ last.before.fd # -1
    /\ Idle(notify[last.apex])
    /\ notify[last.apex].fd = -1
    /\ ~notify[last.apex].timeout_set
    /\ notify[last.apex].tv_sec <= xfrd_time
    /\ ~aborted

====
